---- MODULE Spec2Model ----
(***************************************************************************)
(* backdropy: a thread-local, nested key/value context.                    *)
(*                                                                         *)
(* ThreadContext (src/backdropy/context.py) keeps, per thread, an          *)
(* attribute dictionary that maps each key to a list of values (a          *)
(* per-key value-stack).  push appends None to every stored list and then  *)
(* adds its keyword arguments, add appends to the key's list, pop walks    *)
(* the dictionary removing the last entry of each list, and data reports   *)
(* the last truthy entry of each list.                                     *)
(***************************************************************************)
EXTENDS Integers, Sequences, FiniteSets, TLC

\* ------------------------------------------------------------------ bounds

\* Calls made in one run, over all threads.
MaxOps == 4

\* ------------------------------------------------------------------ inputs

Keys == {"a", "b"}

\* Python values: 0 is a falsy value, 1 and 2 are truthy values.
Values == {0, 1, 2}

\* The None that push appends beneath a child context.
None == -1

\* Mutable value objects of the caller (lists, say), named by identity;
\* an object is truthy whatever it holds here.
Objects == {101, 102}

\* What a mutable object may hold.
Contents == {1, 2}

MainThread == "main"
Threads == {"main", "worker"}

\* A keyword-argument list: pairs in call order, no key twice.
Pair(key, value) == [k |-> key, v |-> value]

NoKwargs == << >>

OneKwargs == {<<Pair(key, value)>> : key \in Keys, value \in Values}

\* Two keywords, in either order; the two values are kept equal to bound
\* the input set.
TwoKwargs ==
    {<<Pair(k1, value), Pair(k2, value)>> :
        <<k1, k2, value>> \in {x \in Keys \X Keys \X Values : x[1] # x[2]}}

KwargsSet == {NoKwargs} \cup OneKwargs \cup TwoKwargs

\* add(**kwargs) appends its keywords one by one, so the calls of add are
\* drawn with at most one keyword.
AddKwargsSet == {NoKwargs} \cup OneKwargs

\* Keyword arguments used by the threads of the two-thread specification:
\* each thread passes a value of its own.
ThreadKwargsSet(t) ==
    {NoKwargs} \cup
    {<<Pair(key, IF t = MainThread THEN 1 ELSE 2)>> : key \in Keys}

\* ------------------------------------------- the attribute dictionary

\* vars(self) is a Python dict: a sequence of [k, v] entries in insertion
\* order, v being the key's list of values.
HasAttr(d, key) == \E i \in DOMAIN d : d[i].k = key

IndexOf(d, key) == CHOOSE i \in DOMAIN d : d[i].k = key

\* getattr(self, key, default)
GetAttr(d, key, default) ==
    IF HasAttr(d, key) THEN d[IndexOf(d, key)].v ELSE default

\* setattr(self, key, attr): an existing key keeps its place, a new key
\* goes last.
SetAttr(d, key, attr) ==
    IF HasAttr(d, key)
    THEN [d EXCEPT ![IndexOf(d, key)].v = attr]
    ELSE Append(d, [k |-> key, v |-> attr])

\* delattr(self, key)
DelAttr(d, key) == SelectSeq(d, LAMBDA e : e.k # key)

\* ----------------------------------------------------- ThreadContext

\* ThreadContext.add: for each keyword, append the value to the key's
\* list (a fresh list for a new key) and store the list.
RECURSIVE add(_, _)
add(d, kwargs) ==
    IF kwargs = << >>
    THEN d
    ELSE LET key == Head(kwargs).k
             value == Head(kwargs).v
             attr == Append(GetAttr(d, key, << >>), value)
         IN  add(SetAttr(d, key, attr), Tail(kwargs))

\* ThreadContext.push: append None to every stored list, then add.
push(d, kwargs) ==
    add([i \in DOMAIN d |-> [d[i] EXCEPT !.v = Append(@, None)]], kwargs)

\* list.pop() inside try/except IndexError: an empty list stays empty.
ListPop(value) ==
    IF value = << >> THEN << >> ELSE SubSeq(value, 1, Len(value) - 1)

\* The loop of ThreadContext.pop from item i on.  The loop iterates
\* vars(self).items() while the body deletes from the same dict: after a
\* delattr the iterator's next step raises RuntimeError (dictionary
\* changed size during iteration), also when the deleted item was the
\* last one, and the items after it are left as they were.
RECURSIVE PopLoop(_, _)
PopLoop(d, i) ==
    IF i > Len(d)
    THEN [dict |-> d, raised |-> FALSE]
    ELSE LET value == ListPop(d[i].v)
         IN  IF Len(value) = 0
             THEN [dict |-> DelAttr(d, d[i].k), raised |-> TRUE]
             ELSE PopLoop([d EXCEPT ![i].v = value], i + 1)

\* ThreadContext.pop: the dictionary it leaves and whether it raised.
pop(d) == PopLoop(d, 1)

\* `if v` of the list comprehension in data.
NotNone(v) == v # None

Truthy(v) == v > 0

compressed(value) == SelectSeq(value, Truthy)

\* ThreadContext.data: for each key, in dictionary order, the last truthy
\* entry of its list; a key with no truthy entry is left out.
data(d) ==
    LET kept == SelectSeq(d, LAMBDA e : Len(compressed(e.v)) > 0)
    IN  [i \in DOMAIN kept |->
            Pair(kept[i].k, compressed(kept[i].v)[Len(compressed(kept[i].v))])]

\* A snapshot as a mapping, its order forgotten.
AsMap(snapshot) ==
    [key \in {snapshot[i].k : i \in DOMAIN snapshot} |->
        (CHOOSE e \in {snapshot[i] : i \in DOMAIN snapshot} : e.k = key).v]

EmptyMap == AsMap(<< >>)

\* ------------------------------------------------------------- state

VARIABLES
    store,      \* per thread: the attribute dictionary of Context
    frames,     \* per thread: the open scopes, "push" or "call", oldest first
    outcome,    \* per thread: how the thread's last call ended
    hist,       \* per thread: the calls made so far
    started,    \* the threads that run
    heap,       \* the contents of the caller's mutable value objects
    rendered    \* what the last call of the logging adapter gave

vars == <<store, frames, outcome, hist, started, heap, rendered>>

\* What the calls of Context leave alone.
outside == <<heap, rendered>>

\* A ThreadContext that is a plain object: every thread reaches the one
\* dictionary.
shared(t) == MainThread

\* class ThreadContext(local): each thread reaches a dictionary of its own.
local(t) == t

selfVars(t) == store[local(t)]

Call(name, kwargs) == [op |-> name, kw |-> kwargs]

\* No record has been formatted or filtered yet.
NoLog ==
    [call |-> "none", at |-> 0, msg |-> "", text |-> << >>, attrs |-> << >>,
     error |-> "none"]

Init ==
    /\ store = [t \in Threads |-> << >>]
    /\ frames = [t \in Threads |-> << >>]
    /\ outcome = [t \in Threads |-> "ok"]
    /\ hist = [t \in Threads |-> << >>]
    /\ started = {MainThread}
    /\ heap = [o \in Objects |-> 1]
    /\ rendered = NoLog

\* The scope opened last and still open, "none" when no scope is open.
TopFrame(t) ==
    IF frames[t] = << >> THEN "none" ELSE frames[t][Len(frames[t])]

\* A run is cut after MaxOps calls.
CanCall == Len(hist[MainThread]) + Len(hist["worker"]) < MaxOps

\* Every call is recorded.
Record(t, call) == hist' = [hist EXCEPT ![t] = Append(@, call)]

\* Context.push(**kwargs)
Push(t, kwargs) ==
    /\ CanCall
    /\ store' = [store EXCEPT ![local(t)] = push(selfVars(t), kwargs)]
    /\ frames' = [frames EXCEPT ![t] = Append(@, "push")]
    /\ outcome' = [outcome EXCEPT ![t] = "ok"]
    /\ Record(t, Call("push", kwargs))
    /\ UNCHANGED <<started, outside>>

\* Context.add(**kwargs)
Add(t, kwargs) ==
    /\ CanCall
    /\ store' = [store EXCEPT ![local(t)] = add(selfVars(t), kwargs)]
    /\ outcome' = [outcome EXCEPT ![t] = "ok"]
    /\ Record(t, Call("add", kwargs))
    /\ UNCHANGED <<frames, started, outside>>

\* Context.pop(), called by the program itself: to close the scope it
\* pushed last, or with no scope open.
Pop(t) ==
    /\ CanCall
    /\ TopFrame(t) \in {"none", "push"}
    /\ store' = [store EXCEPT ![local(t)] = pop(selfVars(t)).dict]
    /\ frames' = [frames EXCEPT ![t] = ListPop(@)]
    /\ outcome' = [outcome EXCEPT ![t] =
                      IF pop(selfVars(t)).raised THEN "RuntimeError" ELSE "ok"]
    /\ Record(t, Call("pop", NoKwargs))
    /\ UNCHANGED <<started, outside>>

\* The keyword arguments bound by contextual(fn, **vars) when the wrappers
\* of the program were made.
WrapSet == {<<Pair("a", 1)>>, <<Pair("b", 2)>>}

\* How the wrapped callable ends.
Results == {"return", "raise"}

\* contextual.decorator, up to the start of fn: Context.push(**vars).
Invoke(t, kwargs) ==
    /\ CanCall
    /\ store' = [store EXCEPT ![local(t)] = push(selfVars(t), kwargs)]
    /\ frames' = [frames EXCEPT ![t] = Append(@, "call")]
    /\ outcome' = [outcome EXCEPT ![t] = "ok"]
    /\ Record(t, Call("invoke", kwargs))
    /\ UNCHANGED <<started, outside>>

\* What the caller of the decorator observes: the finally clause runs
\* Context.pop(), and a failure of that pop replaces fn's own result.
Observed(result, popRaised) ==
    IF popRaised THEN "RuntimeError"
    ELSE IF result = "raise" THEN "raised" ELSE "returned"

\* contextual.decorator, from the end of fn: fn returns or raises, having
\* closed what it opened, and the finally clause pops.
Finish(t, result) ==
    /\ CanCall
    /\ TopFrame(t) = "call"
    /\ store' = [store EXCEPT ![local(t)] = pop(selfVars(t)).dict]
    /\ frames' = [frames EXCEPT ![t] = ListPop(@)]
    /\ outcome' = [outcome EXCEPT ![t] =
                      Observed(result, pop(selfVars(t)).raised)]
    /\ Record(t, Call(result, NoKwargs))
    /\ UNCHANGED <<started, outside>>

\* The keyword arguments given to scope(**vars).
ScopeKwargsSet ==
    {NoKwargs} \cup {<<Pair(key, value)>> : key \in Keys, value \in {1, 2}}

\* The with statement entering scope(**vars): Context.push(**vars), then
\* the generator yields Context as the handle.
Enter(t, kwargs) ==
    /\ CanCall
    /\ store' = [store EXCEPT ![local(t)] = push(selfVars(t), kwargs)]
    /\ frames' = [frames EXCEPT ![t] = Append(@, "scope")]
    /\ outcome' = [outcome EXCEPT ![t] = "ok"]
    /\ Record(t, Call("enter", kwargs))
    /\ UNCHANGED <<started, outside>>

\* The with statement leaving a scope: its body completed (or returned
\* early) or failed, having closed what it opened, and the generator's
\* finally clause pops; a failure of that pop replaces the body's result.
Exit(t, result) ==
    /\ CanCall
    /\ TopFrame(t) = "scope"
    /\ store' = [store EXCEPT ![local(t)] = pop(selfVars(t)).dict]
    /\ frames' = [frames EXCEPT ![t] = ListPop(@)]
    /\ outcome' = [outcome EXCEPT ![t] =
                      Observed(result, pop(selfVars(t)).raised)]
    /\ Record(t, Call(result, NoKwargs))
    /\ UNCHANGED <<started, outside>>

\* A call of add through the handle of the open scope that is number s
\* of the thread's open scopes.
HandleCall(s, kwargs) == [op |-> "handle_add", kw |-> kwargs, scope |-> s]

\* ctx.add(**kwargs), ctx being the handle a scope yielded: every handle
\* is Context itself, so the call is Context.add.
HandleAdd(t, s, kwargs) ==
    /\ CanCall
    /\ s \in DOMAIN frames[t]
    /\ frames[t][s] = "scope"
    /\ store' = [store EXCEPT ![local(t)] = add(selfVars(t), kwargs)]
    /\ outcome' = [outcome EXCEPT ![t] = "ok"]
    /\ Record(t, HandleCall(s, kwargs))
    /\ UNCHANGED <<frames, started, outside>>

\* Keyword arguments whose value is a mutable object of the caller.
ObjectKwargsSet == {<<Pair(key, o)>> : key \in Keys, o \in Objects}

\* The caller changes, in place, an object it may have passed to push or
\* add before (value.append(...), say).  No method of Context runs.
MutateCall(o, old) == [op |-> "mutate", kw |-> NoKwargs, obj |-> o, was |-> old]

Mutate(t, o, content) ==
    /\ CanCall
    /\ content # heap[o]
    /\ heap' = [heap EXCEPT ![o] = content]
    /\ Record(t, MutateCall(o, heap[o]))
    /\ UNCHANGED <<store, frames, outcome, started, rendered>>

\* The requests the middleware is called with (request objects are
\* truthy).
Requests == {1, 2}

\* django contextual.middleware, up to the call of get_response:
\* Context.push(request=request).
Request(t, request) ==
    /\ CanCall
    /\ store' = [store EXCEPT ![local(t)] =
                    push(selfVars(t), <<Pair("request", request)>>)]
    /\ frames' = [frames EXCEPT ![t] = Append(@, "request")]
    /\ outcome' = [outcome EXCEPT ![t] = "ok"]
    /\ Record(t, Call("request", <<Pair("request", request)>>))
    /\ UNCHANGED <<started, outside>>

\* django contextual.middleware, from the end of get_response: the
\* handler returned or raised, and the finally clause pops.
Respond(t, result) ==
    /\ CanCall
    /\ TopFrame(t) = "request"
    /\ store' = [store EXCEPT ![local(t)] = pop(selfVars(t)).dict]
    /\ frames' = [frames EXCEPT ![t] = ListPop(@)]
    /\ outcome' = [outcome EXCEPT ![t] =
                      Observed(result, pop(selfVars(t)).raised)]
    /\ Record(t, Call(result, NoKwargs))
    /\ UNCHANGED <<started, outside>>

\* The keys of the logging runs, of one, two and four characters.
LogKeys == {"a", "id", "task"}

LogKwargsSet == {<<Pair(key, value)>> : key \in LogKeys, value \in {1, 2}}

\* The formatted messages of the log records.
Messages == {"idle", "working"}

\* A key as the sequence of its characters.
Chars(key) ==
    CASE key = "a" -> <<"a">>
      [] key = "b" -> <<"b">>
      [] key = "id" -> <<"i", "d">>
      [] key = "task" -> <<"t", "a", "s", "k">>
      [] key = "request" -> <<"r", "e", "q", "u", "e", "s", "t">>

\* `for key, value in Context.data`: iterating the dict gives its keys, and
\* each key, a string, is unpacked into two names.  A key of two
\* characters gives its characters; any other key raises ValueError.
Unpacks(key) == Len(Chars(key)) = 2

\* The keys of a snapshot, in its order.
KeyList(snapshot) == [i \in DOMAIN snapshot |-> snapshot[i].k]

\* ''.join([f'[{key}={value}]' for key, value in ...]) over keys that unpack.
RECURSIVE Brackets(_)
Brackets(keys) ==
    IF keys = << >> THEN << >>
    ELSE <<"[", Chars(Head(keys))[1], "=", Chars(Head(keys))[2], "]">>
             \o Brackets(Tail(keys))

\* ContextFormatter.format: the text as a sequence of pieces, or the
\* ValueError of the unpacking.
format(d, message) ==
    LET keys == KeyList(data(d))
    IN  IF \E i \in DOMAIN keys : ~Unpacks(keys[i])
        THEN [text |-> << >>, error |-> "ValueError"]
        ELSE [text |-> Brackets(keys) \o <<" ", message>>, error |-> "none"]

\* The loop of ContextFilter.filter: setattr(record, key, value) for each
\* key that unpacks, up to the first key that does not.
RECURSIVE filter(_, _)
filter(keys, attrs) ==
    IF keys = << >> THEN [attrs |-> attrs, error |-> "none"]
    ELSE IF ~Unpacks(Head(keys)) THEN [attrs |-> attrs, error |-> "ValueError"]
    ELSE filter(Tail(keys),
                Append(attrs, Pair(Chars(Head(keys))[1], Chars(Head(keys))[2])))

\* A handler formats a record whose message is `message`.
Format(t, message) ==
    /\ rendered' =
           [call |-> "format", at |-> Len(hist[t]), msg |-> message,
            text |-> format(selfVars(t), message).text, attrs |-> << >>,
            error |-> format(selfVars(t), message).error]
    /\ UNCHANGED <<store, frames, outcome, hist, started, heap>>

\* A logger or handler passes a record through ContextFilter.
Filter(t) ==
    /\ rendered' =
           [call |-> "filter", at |-> Len(hist[t]), msg |-> "", text |-> << >>,
            attrs |-> filter(KeyList(data(selfVars(t))), << >>).attrs,
            error |-> filter(KeyList(data(selfVars(t))), << >>).error]
    /\ UNCHANGED <<store, frames, outcome, hist, started, heap>>

\* threading.Thread(...).start(): the new thread has made no call yet.
Start(t) ==
    /\ t \notin started
    /\ started' = started \cup {t}
    /\ UNCHANGED <<store, frames, outcome, hist, outside>>

\* One thread: the calls of the program and of its wrapped callables.
Next ==
    \/ \E kwargs \in KwargsSet : Push(MainThread, kwargs)
    \/ \E kwargs \in AddKwargsSet : Add(MainThread, kwargs)
    \/ Pop(MainThread)
    \/ \E kwargs \in WrapSet : Invoke(MainThread, kwargs)
    \/ \E result \in Results : Finish(MainThread, result)

Spec == Init /\ [][Next]_vars

\* Two threads: any interleaving of their calls.
NextThreads ==
    \/ \E t \in Threads : Start(t)
    \/ \E t \in started : \E kwargs \in ThreadKwargsSet(t) : Push(t, kwargs)
    \/ \E t \in started : \E kwargs \in ThreadKwargsSet(t) : Add(t, kwargs)
    \/ \E t \in started : Pop(t)

SpecThreads == Init /\ [][NextThreads]_vars

\* One thread: scope guards and wrapped callables, with adds made through
\* the handles of the open scopes.
NextScope ==
    \/ \E kwargs \in ScopeKwargsSet : Enter(MainThread, kwargs)
    \/ \E result \in Results : Exit(MainThread, result)
    \/ \E s \in 1 .. MaxOps : \E kwargs \in ScopeKwargsSet \ {NoKwargs} :
            HandleAdd(MainThread, s, kwargs)
    \/ \E kwargs \in WrapSet : Invoke(MainThread, kwargs)
    \/ \E result \in Results : Finish(MainThread, result)

SpecScope == Init /\ [][NextScope]_vars

\* One thread that passes mutable objects and changes them afterwards.
NextMutable ==
    \/ \E kwargs \in ObjectKwargsSet : Push(MainThread, kwargs)
    \/ \E kwargs \in ObjectKwargsSet : Add(MainThread, kwargs)
    \/ Pop(MainThread)
    \/ \E o \in Objects : \E content \in Contents :
            Mutate(MainThread, o, content)

SpecMutable == Init /\ [][NextMutable]_vars

\* One thread serving requests: a handler may add to the context and may
\* call the middleware again.
NextRequest ==
    \/ \E request \in Requests : Request(MainThread, request)
    \/ \E result \in Results : Respond(MainThread, result)
    \/ \E kwargs \in ScopeKwargsSet \ {NoKwargs} : Add(MainThread, kwargs)

SpecRequest == Init /\ [][NextRequest]_vars

\* One thread that calls push, add and pop with at most one pair.
NextStack ==
    \/ \E kwargs \in AddKwargsSet : Push(MainThread, kwargs)
    \/ \E kwargs \in AddKwargsSet : Add(MainThread, kwargs)
    \/ Pop(MainThread)

SpecStack == Init /\ [][NextStack]_vars

\* One thread that opens and closes contexts and logs in between.
NextLog ==
    \/ \E kwargs \in LogKwargsSet : Push(MainThread, kwargs)
    \/ Pop(MainThread)
    \/ \E message \in Messages : Format(MainThread, message)
    \/ Filter(MainThread)

SpecLog == Init /\ [][NextLog]_vars

\* ------------------------------------------------ reading a history

Opens(call) == call.op \in {"push", "invoke", "enter", "request"}

Closes(call) == call.op \in {"pop", "return", "raise"}

\* What one recorded call does to a thread's dictionary.
Apply(d, call) ==
    CASE Opens(call) -> push(d, call.kw)
      [] call.op \in {"add", "handle_add"} -> add(d, call.kw)
      [] Closes(call) -> pop(d).dict
      [] OTHER -> d

\* The dictionary of a thread that made the calls of h, and no other
\* thread any.
RECURSIVE Replay(_)
Replay(h) ==
    IF h = << >> THEN << >> ELSE Apply(Replay(SubSeq(h, 1, Len(h) - 1)), h[Len(h)])

\* The snapshot, as a mapping, after the first n calls of h.
SnapshotAt(h, n) == AsMap(data(Replay(SubSeq(h, 1, n))))

\* The snapshot thread t reads now, as a mapping.
SnapshotNow(t) == AsMap(data(selfVars(t)))

\* The call that opened the scope which call n of h closes; 0 when call n
\* closes nothing (no scope was open).
RECURSIVE Opener(_, _, _)
Opener(h, j, closed) ==
    IF j = 0 THEN 0
    ELSE IF Closes(h[j]) THEN Opener(h, j - 1, closed + 1)
    ELSE IF Opens(h[j])
         THEN IF closed = 0 THEN j ELSE Opener(h, j - 1, closed - 1)
    ELSE Opener(h, j - 1, closed)

MatchOf(h, n) == Opener(h, n - 1, 0)

\* Pops never exceed prior pushes in h.
NoUnderflow(h) ==
    \A n \in DOMAIN h : Closes(h[n]) => MatchOf(h, n) > 0

\* Every value passed in h is truthy.
TruthyOnly(h) ==
    \A n \in DOMAIN h : \A i \in DOMAIN h[n].kw : Truthy(h[n].kw[i].v)

KeysOf(kwargs) == {kwargs[i].k : i \in DOMAIN kwargs}

\* f with the pairs of g written over it.
Override(f, g) ==
    [key \in DOMAIN f \cup DOMAIN g |->
        IF key \in DOMAIN g THEN g[key] ELSE f[key]]

\* -------------------------------------------- the reference stack

\* The stack of frames of the specification: a frame maps keys to values,
\* the root frame is first, push adds a frame, add writes into the top
\* frame, pop removes the top frame unless it is the root.
RefApply(stack, call) ==
    CASE Opens(call) -> Append(stack, AsMap(call.kw))
      [] call.op = "add" ->
            [stack EXCEPT ![Len(stack)] = Override(@, AsMap(call.kw))]
      [] call.op = "handle_add" ->
            [stack EXCEPT ![call.scope + 1] = Override(@, AsMap(call.kw))]
      [] Closes(call) ->
            IF Len(stack) > 1 THEN SubSeq(stack, 1, Len(stack) - 1) ELSE stack
      [] OTHER -> stack

RECURSIVE RefReplay(_)
RefReplay(h) ==
    IF h = << >> THEN <<EmptyMap>>
    ELSE RefApply(RefReplay(SubSeq(h, 1, Len(h) - 1)), h[Len(h)])

\* The frames overlaid root to top: the last assignment of each key wins.
RECURSIVE Overlay(_)
Overlay(stack) ==
    IF stack = << >> THEN EmptyMap
    ELSE Override(Overlay(SubSeq(stack, 1, Len(stack) - 1)), stack[Len(stack)])

\* ------------------------------------------------------------ claims

\* C1. After any sequence of push, add and pop calls on one thread the
\* snapshot equals the overlay, root to top, of the reference stack of
\* frames.  Stated over calls that pass truthy values only.
C1_SnapshotIsOverlay ==
    \A t \in Threads :
        TruthyOnly(hist[t]) => SnapshotNow(t) = Overlay(RefReplay(hist[t]))

\* C2. Where pops never exceed prior pushes, each pop restores the
\* snapshot to what it was immediately before its matching push, for
\* every key; a pop that matches the first push restores the snapshot
\* before the first push.  Stated over calls that pass truthy values only.
C2_PopRestores ==
    \A t \in Threads :
        LET h == hist[t]
            n == Len(h)
        IN  (n > 0 /\ Closes(h[n]) /\ NoUnderflow(h) /\ TruthyOnly(h))
                => SnapshotNow(t) = SnapshotAt(h, MatchOf(h, n) - 1)

\* C3. On a fresh stack, for a key k and truthy values v1, v2: after
\* push(k=v1); push(k=v2) the snapshot is {k: v2}, after one pop it is
\* {k: v1}, after a second pop it is {}.
C3_ShadowRestore ==
    \A t \in Threads : \A key \in Keys : \A v1, v2 \in {v \in Values : Truthy(v)} :
        LET push1 == Call("push", <<Pair(key, v1)>>)
            push2 == Call("push", <<Pair(key, v2)>>)
            pop1 == Call("pop", NoKwargs)
        IN  /\ hist[t] = <<push1, push2>>
                => SnapshotNow(t) = AsMap(<<Pair(key, v2)>>)
            /\ hist[t] = <<push1, push2, pop1>>
                => SnapshotNow(t) = AsMap(<<Pair(key, v1)>>)
            /\ hist[t] = <<push1, push2, pop1, pop1>>
                => SnapshotNow(t) = EmptyMap

\* Call m of h passes keys that no open frame assigned and that are not
\* stored.
FreshKeys(h, m) ==
    LET before == SubSeq(h, 1, m - 1)
    IN  /\ KeysOf(h[m].kw) \cap DOMAIN Overlay(RefReplay(before)) = {}
        /\ \A key \in KeysOf(h[m].kw) : ~HasAttr(Replay(before), key)

\* C4. A child frame pushed with keys disjoint from those of its
\* ancestors leaves the ancestors' keys visible and unchanged while it is
\* open, and its pop removes the child's keys and only them: the
\* snapshot is again what it was before the push.  Stated over calls that
\* pass truthy values only, for a pop that follows its push at once.
C4_IndependentKeys ==
    \A t \in Threads :
        LET h == hist[t]
            n == Len(h)
        IN  /\ (n >= 1 /\ TruthyOnly(h) /\ h[n].op = "push" /\ FreshKeys(h, n))
                => SnapshotNow(t) =
                       Override(SnapshotAt(h, n - 1), AsMap(h[n].kw))
            /\ (n >= 2 /\ TruthyOnly(h) /\ h[n].op = "pop"
                    /\ h[n - 1].op = "push" /\ FreshKeys(h, n - 1))
                => SnapshotNow(t) = SnapshotAt(h, n - 2)

\* C5. add merges into the top frame: after push(kw1); add(kw2) the
\* pairs of both are visible at once, and the one pop that closes the
\* frame removes the pushed and the added keys together.  Stated over
\* calls that pass truthy values only, for added keys other than the
\* pushed ones.
C5_AddMerges ==
    \A t \in Threads :
        LET h == hist[t]
            n == Len(h)
        IN  /\ (n >= 2 /\ TruthyOnly(h) /\ h[n].op = "add"
                    /\ h[n - 1].op = "push"
                    /\ KeysOf(h[n].kw) \cap KeysOf(h[n - 1].kw) = {})
                => SnapshotNow(t) =
                       Override(Override(SnapshotAt(h, n - 2),
                                         AsMap(h[n - 1].kw)),
                                AsMap(h[n].kw))
            /\ (n >= 3 /\ TruthyOnly(h) /\ h[n].op = "pop"
                    /\ h[n - 1].op = "add" /\ h[n - 2].op = "push"
                    /\ KeysOf(h[n - 1].kw) \cap KeysOf(h[n - 2].kw) = {})
                => SnapshotNow(t) = SnapshotAt(h, n - 3)

\* Key is in both mappings with one value, or in neither.
SameAt(f, g, key) ==
    /\ key \in DOMAIN f <=> key \in DOMAIN g
    /\ key \in DOMAIN f => f[key] = g[key]

\* C6. When add assigns a key that the top frame already assigned (by
\* its push or by an earlier add), the new value replaces the old one:
\* the snapshot shows the new value, and after the frame's pop the key is
\* as it was before the frame's push (the replaced value does not
\* reappear).  Stated over calls that pass truthy values only.
C6_AddOverwrites ==
    \A t \in Threads :
        LET h == hist[t]
            n == Len(h)
        IN  /\ (n >= 2 /\ TruthyOnly(h) /\ h[n].op = "add"
                    /\ h[n - 1].op \in {"push", "add"})
                => \A key \in KeysOf(h[n].kw) \cap KeysOf(h[n - 1].kw) :
                       /\ key \in DOMAIN SnapshotNow(t)
                       /\ SnapshotNow(t)[key] = AsMap(h[n].kw)[key]
            /\ (n >= 3 /\ TruthyOnly(h) /\ h[n].op = "pop"
                    /\ h[n - 1].op = "add" /\ h[n - 2].op = "push")
                => \A key \in KeysOf(h[n - 1].kw) \cap KeysOf(h[n - 2].kw) :
                       SameAt(SnapshotNow(t), SnapshotAt(h, n - 3), key)
            /\ (n >= 4 /\ TruthyOnly(h) /\ h[n].op = "pop"
                    /\ h[n - 1].op = "add" /\ h[n - 2].op = "add"
                    /\ h[n - 3].op = "push")
                => \A key \in KeysOf(h[n - 1].kw) \cap KeysOf(h[n - 2].kw) :
                       SameAt(SnapshotNow(t), SnapshotAt(h, n - 4), key)

\* C7. pop with no scope open (every push already matched by a pop, the
\* root frame possibly holding added data) leaves the snapshot unchanged
\* and does not raise.  Stated over calls that pass truthy values only.
C7_RootPopNoOp ==
    \A t \in Threads :
        LET h == hist[t]
            n == Len(h)
        IN  (n >= 1 /\ TruthyOnly(h) /\ h[n].op = "pop" /\ MatchOf(h, n) = 0)
                => /\ SnapshotNow(t) = SnapshotAt(h, n - 1)
                   /\ outcome[t] # "RuntimeError"

\* C8. No call of push, add or pop raises, in any reachable state.
C8_NoFailure ==
    \A t \in Threads : outcome[t] # "RuntimeError"

\* C10. When a callable wrapped by contextual(fn, **vars) raises, then
\* once the invocation has completed the snapshot equals the snapshot
\* before the invocation and holds none of the bound keys that were
\* absent before it, also when fn invoked the same wrapper again before
\* it raised.  Stated for bodies that make no other call.
C10_CleanupOnFailure ==
    \A t \in Threads :
        LET h == hist[t]
            n == Len(h)
            i == MatchOf(h, n)
        IN  (/\ n >= 1
             /\ h[n].op = "raise"
             /\ \A j \in (i + 1) .. (n - 1) :
                    \/ h[j].op \in {"return", "raise"}
                    \/ h[j].op = "invoke" /\ h[j].kw = h[i].kw)
                => /\ SnapshotNow(t) = SnapshotAt(h, i - 1)
                   /\ \A key \in KeysOf(h[i].kw) :
                          key \notin DOMAIN SnapshotAt(h, i - 1)
                              => key \notin DOMAIN SnapshotNow(t)

\* The pairs a thread passed to push and add in h.
PassedIn(h) == UNION {{h[n].kw[i] : i \in DOMAIN h[n].kw} : n \in DOMAIN h}

\* C9. Under any interleaving of the calls of two threads, the snapshot
\* a running thread reads is the one its own calls alone produce, every
\* pair in it is a pair the thread itself passed, and a thread that has
\* made no call yet reads an empty snapshot.
C9_ThreadIsolation ==
    \A t \in started :
        LET snapshot == data(selfVars(t))
        IN  /\ snapshot = data(Replay(hist[t]))
            /\ \A i \in DOMAIN snapshot : snapshot[i] \in PassedIn(hist[t])
            /\ hist[t] = << >> => snapshot = << >>

\* Both threads run with a scope open and read non-empty snapshots that
\* share no key.
C9_Witness ==
    /\ started = Threads
    /\ \A t \in Threads : frames[t] # << >> /\ data(selfVars(t)) # << >>
    /\ DOMAIN SnapshotNow(MainThread) \cap DOMAIN SnapshotNow("worker") = {}

\* C11. The wrapper and the scope guard are transparent to outcomes: an
\* invocation (or a guarded block) that ends returns what the callable
\* returned or propagates the failure it raised; the closing pop puts no
\* failure of its own in its place.
C11_OutcomeUnchanged ==
    \A t \in Threads :
        LET h == hist[t]
            n == Len(h)
        IN  (n >= 1 /\ h[n].op \in Results /\ MatchOf(h, n) > 0)
                => outcome[t] = IF h[n].op = "raise" THEN "raised" ELSE "returned"

\* C12. A scope entry makes one push and every exit makes one pop that
\* removes exactly the frame made on entry and runs to completion: after
\* the exit, whether the body completed or failed, the stored
\* value-stacks are those held before the entry (ancestors unchanged) and
\* the pop has not failed.  Stated for bodies that only open and close
\* further scopes.
C12_ExitPopsOwnFrame ==
    \A t \in Threads :
        LET h == hist[t]
            n == Len(h)
            i == MatchOf(h, n)
        IN  (/\ n >= 1
             /\ h[n].op \in Results
             /\ i > 0
             /\ \A j \in i .. n : Opens(h[j]) \/ Closes(h[j]))
                => /\ selfVars(t) = Replay(SubSeq(h, 1, i - 1))
                   /\ outcome[t] # "RuntimeError"

\* C17. A pair added through the handle of scope S stays visible until S
\* exits and is gone after S's exit; added through S's handle while a
\* scope nested in S is open, it is still visible after the nested
\* scope's exit.
C17_HandleAddScoped ==
    \A t \in Threads :
        LET h == hist[t]
            n == Len(h)
        IN  /\ (n >= 1 /\ h[n].op = "handle_add")
                => \A i \in DOMAIN h[n].kw :
                       /\ h[n].kw[i].k \in DOMAIN SnapshotNow(t)
                       /\ SnapshotNow(t)[h[n].kw[i].k] = h[n].kw[i].v
            /\ (n >= 3 /\ h[n].op \in Results /\ h[n - 1].op = "handle_add"
                    /\ h[n - 2].op = "enter"
                    /\ h[n - 1].scope = Len(frames[t]) + 1)
                => SnapshotNow(t) = SnapshotAt(h, n - 3)
            /\ (n >= 4 /\ h[n].op \in Results /\ h[n - 1].op = "handle_add"
                    /\ h[n - 2].op = "enter" /\ h[n - 3].op = "enter"
                    /\ h[n - 1].scope = Len(frames[t]))
                => \A i \in DOMAIN h[n - 1].kw :
                       /\ h[n - 1].kw[i].k \in DOMAIN SnapshotNow(t)
                       /\ SnapshotNow(t)[h[n - 1].kw[i].k] = h[n - 1].kw[i].v

\* What a stored value shows when read with the objects holding h: the
\* contents of a mutable object, the value itself otherwise.
Deref(v, h) == IF v \in Objects THEN h[v] ELSE v

\* The snapshot thread t reads, as the values it shows with the objects
\* holding h.
Reported(t, h) ==
    [i \in DOMAIN data(selfVars(t)) |->
        Pair(data(selfVars(t))[i].k, Deref(data(selfVars(t))[i].v, h))]

\* C13. Values are copied into the frame at push and add time: when the
\* caller mutates a value object after passing it, the snapshot reports
\* for every key what it reported before the mutation.
C13_ValuesCopied ==
    \A t \in Threads :
        LET h == hist[t]
            n == Len(h)
        IN  (n >= 1 /\ h[n].op = "mutate")
                => Reported(t, heap) =
                       Reported(t, [heap EXCEPT ![h[n].obj] = h[n].was])

\* C14. While the handler of a request runs, the snapshot holds the key
\* `request` bound to that request; after the middleware call has
\* finished, the handler having returned or raised, the snapshot equals
\* the snapshot before the request, also for requests served one after
\* another and for a handler that calls the middleware again.  The second
\* part is stated for handlers that make no other call.
C14_RequestScoped ==
    \A t \in Threads :
        LET h == hist[t]
            n == Len(h)
            open == Opener(h, n, 0)
            i == MatchOf(h, n)
        IN  /\ TopFrame(t) = "request"
                => /\ "request" \in DOMAIN SnapshotNow(t)
                   /\ SnapshotNow(t)["request"] = h[open].kw[1].v
            /\ (/\ n >= 1
                /\ h[n].op \in Results
                /\ i > 0
                /\ \A j \in i .. n : Opens(h[j]) \/ Closes(h[j]))
                => SnapshotNow(t) = SnapshotAt(h, i - 1)

\* A value as str() renders it.
Str(v) == CASE v = 0 -> "0" [] v = 1 -> "1" [] v = 2 -> "2"

\* The prefix `[k1=v1][k2=v2]...` of a snapshot, in snapshot order.
RECURSIVE Prefix(_)
Prefix(snapshot) ==
    IF snapshot = << >> THEN << >>
    ELSE <<"[", Head(snapshot).k, "=", Str(Head(snapshot).v), "]">>
             \o Prefix(Tail(snapshot))

\* The snapshot that the last call of the logging adapter read.
SnapshotRead(t) == data(Replay(SubSeq(hist[t], 1, rendered.at)))

\* C15. ContextFormatter.format renders a non-empty snapshot as one
\* `[key=value]` group per pair, in snapshot order, with no separator,
\* followed by a space and the formatted message; ContextFilter sets
\* each snapshot pair as an attribute of the record (values compared as
\* str() renders them).
C15_PrefixRendered ==
    LET snapshot == SnapshotRead(MainThread)
    IN  /\ (rendered.call = "format" /\ snapshot # << >>)
            => /\ rendered.error = "none"
               /\ rendered.text = Prefix(snapshot) \o <<" ", rendered.msg>>
        /\ rendered.call = "filter"
            => /\ rendered.error = "none"
               /\ rendered.attrs =
                      [i \in DOMAIN snapshot |->
                          Pair(snapshot[i].k, Str(snapshot[i].v))]

\* C16. With an empty snapshot ContextFormatter.format gives exactly the
\* formatted message, with nothing before it.
C16_NoPrefixWhenEmpty ==
    (rendered.call = "format" /\ SnapshotRead(MainThread) = << >>)
        => /\ rendered.error = "none"
           /\ rendered.text = <<rendered.msg>>

\* The key order of the specification: per frame, the keys in the order
\* of their first assignment in that frame; push adds a frame, add
\* appends the keys the top frame has not assigned yet, pop removes the
\* top frame unless it is the root.
OrderApply(stack, call) ==
    CASE Opens(call) -> Append(stack, KeyList(call.kw))
      [] call.op = "add" ->
            [stack EXCEPT ![Len(stack)] =
                @ \o SelectSeq(KeyList(call.kw),
                               LAMBDA key : \A i \in DOMAIN @ : @[i] # key)]
      [] Closes(call) ->
            IF Len(stack) > 1 THEN SubSeq(stack, 1, Len(stack) - 1) ELSE stack
      [] OTHER -> stack

RECURSIVE OrderReplay(_)
OrderReplay(h) ==
    IF h = << >> THEN << << >> >>
    ELSE OrderApply(OrderReplay(SubSeq(h, 1, Len(h) - 1)), h[Len(h)])

\* The keys of a sequence, each at its first occurrence.
RECURSIVE FirstSeen(_)
FirstSeen(keys) ==
    IF keys = << >> THEN << >>
    ELSE LET front == FirstSeen(SubSeq(keys, 1, Len(keys) - 1))
             key == keys[Len(keys)]
         IN  IF \E i \in DOMAIN front : front[i] = key THEN front
             ELSE Append(front, key)

RECURSIVE Flatten(_)
Flatten(stack) ==
    IF stack = << >> THEN << >> ELSE Head(stack) \o Flatten(Tail(stack))

\* The order of each key's first assignment among the open frames.
FirstAssigned(h) == FirstSeen(Flatten(OrderReplay(h)))

\* C18. The snapshot's key order is determined by the sequence of calls
\* (it is the order that replaying the calls gives), and it is the
\* insertion order of each key's first assignment among the currently
\* open frames.  Stated over calls that pass truthy values only, where
\* the snapshot holds the pairs of the overlay of the open frames.
C18_OrderOfFirstAssignment ==
    \A t \in Threads :
        LET h == hist[t]
            order == KeyList(data(selfVars(t)))
        IN  /\ order = KeyList(data(Replay(h)))
            /\ (TruthyOnly(h) /\ SnapshotNow(t) = Overlay(RefReplay(h)))
                => order = FirstAssigned(h)

\* pop as the specification gives it: the most recent entry leaves the
\* value-stack of every stored key, and every key whose value-stack
\* became empty is deleted.
FullPop(d) ==
    SelectSeq([i \in DOMAIN d |-> Pair(d[i].k, SubSeq(d[i].v, 1, Len(d[i].v) - 1))],
              LAMBDA e : e.v # << >>)

\* C19. One pop call removes the most recent entry from the value-stack
\* of every stored key and deletes every key whose value-stack became
\* empty: after any operation no stored key has an empty value-stack,
\* and no key is left un-popped by a pop that processed other keys.
C19_PopEveryKey ==
    \A t \in Threads :
        LET h == hist[t]
            n == Len(h)
        IN  /\ \A i \in DOMAIN selfVars(t) : selfVars(t)[i].v # << >>
            /\ (n >= 1 /\ Closes(h[n]))
                => selfVars(t) = FullPop(Replay(SubSeq(h, 1, n - 1)))

\* The values that are false in a condition: None and 0 (0 stands for
\* 0, False, the empty string and the empty containers).
Falsy == {None, 0}

\* The last entry of a value-stack that is not falsy, None if it has none.
RECURSIVE LastKept(_)
LastKept(value) ==
    IF value = << >> THEN None
    ELSE IF value[Len(value)] \notin Falsy THEN value[Len(value)]
    ELSE LastKept(SubSeq(value, 1, Len(value) - 1))

====
